---- MODULE Spec2Model ----
(***************************************************************************)
(* Model of the HealthyLocks emotion-analysis demo (src/main.py):          *)
(*   RekognitionHandler      - wraps one detect_faces call, maps the       *)
(*                             response, swallows every Exception          *)
(*   StreamlitEmotionsApp    - upload control, call of the handler,        *)
(*                             rendering of the returned list              *)
(*   main                    - constructs the app and runs it              *)
(* The remote service and the boto3 client factory are the environment:    *)
(* every run draws the outcome of detect_faces from RemoteOutcomes.        *)
(* Confidence values are floats in the program; the model keeps them as    *)
(* integers counting tenths (991 stands for 99.1).                         *)
(***************************************************************************)
EXTENDS Integers, Sequences, FiniteSets, TLC

VARIABLES
    pc,        \* position of main(): "start", "ready" (app constructed),
               \* "startup_error" (the constructor raised), "run_error" (run() raised)
    config,    \* what the environment's credential/region configuration looks like
    handler,   \* the RekognitionHandler instance's attributes ("none" before __init__)
    log,       \* the process-wide logging sink: sequence of [level, msg]
    history    \* one record per finished execution of upload_and_analyze_image

vars == <<pc, config, handler, log, history>>

\* ------------------------------------------------------------------ bounds
\* longest FaceDetails list the remote service answers with
MaxFaces == 2
\* executions of upload_and_analyze_image on one application instance
MaxRuns == 2

\* ------------------------------------------------------------ environment
None == "None"

\* uploaded image blobs (opaque bytes)
ImageBlobs == {"img_a"}

\* the states of the credential/region configuration outside the process
Configs == {"ok", "no_credentials", "invalid_credentials", "no_region"}

\* emotion entries of a face record: well-formed ones, and one without Confidence
HAPPY == [Type |-> "HAPPY", Confidence |-> 980]
CALM == [Type |-> "CALM", Confidence |-> 20]
SAD == [Type |-> "SAD", Confidence |-> 750]
NoConfidenceEmotion == [Type |-> "ANGRY"]

\* face records as the remote service (or a stub of it) may return them
Face1 == [Confidence |-> 991, Emotions |-> <<HAPPY, CALM>>, AgeRange |-> 30]
Face2 == [Confidence |-> 873, Emotions |-> <<SAD>>]
FaceBadEmotion == [Confidence |-> 500, Emotions |-> <<CALM, NoConfidenceEmotion>>]
FaceNoConfidence == [Emotions |-> <<SAD>>]

FacePool == {Face1, Face2, FaceBadEmotion, FaceNoConfidence}

FaceLists == UNION {[1..n -> FacePool] : n \in 0..MaxFaces}

Responses ==
    {[FaceDetails |-> fl, ResponseMetadata |-> 200] : fl \in FaceLists}
        \cup {[ResponseMetadata |-> 200]}

CallErrors == {"EndpointConnectionError", "InvalidImageFormatException"}

\* what client.detect_faces can do under a given configuration
RemoteOutcomes(cfg) ==
    IF cfg = "ok"
    THEN {[kind |-> "raise", error |-> e] : e \in CallErrors}
             \cup {[kind |-> "response", body |-> r] : r \in Responses}
    ELSE IF cfg = "no_credentials"
    THEN {[kind |-> "raise", error |-> "NoCredentialsError"]}
    ELSE {[kind |-> "raise", error |-> "UnrecognizedClientException"]}

\* boto3.client('rekognition') resolves the endpoint when it is called: with no
\* region configured it raises NoRegionError; credentials are resolved lazily
ClientRaises(cfg) == cfg = "no_region"

\* ---------------------------------------------------------------- helpers
LogEntry(level, msg) == [level |-> level, msg |-> msg]

\* str() of a float with one decimal, from its count of tenths
FormatFloat(t) == ToString(t \div 10) \o "." \o ToString(t % 10)

\* str(KeyError(key))
KeyErrorText(key) == "'" \o key \o "'"

\* ------------------------------------------------- RekognitionHandler
\* RekognitionHandler.__init__: the handler's only attribute is the client
NewHandler == [client |-> "rekognition"]

\* the request analyze_emotions passes to client.detect_faces
DetectFacesRequest(image_bytes) ==
    [Image |-> [Bytes |-> image_bytes], Attributes |-> <<"ALL">>]

\* the key whose lookup fails first in
\*   {'Confidence': face_detail['Confidence'], 'Emotions': face_detail['Emotions']}
MissingKey(face_detail) ==
    IF "Confidence" \notin DOMAIN face_detail THEN "Confidence"
    ELSE IF "Emotions" \notin DOMAIN face_detail THEN "Emotions"
    ELSE None

\* one element of the list comprehension
MapFace(face_detail) ==
    [Confidence |-> face_detail.Confidence, Emotions |-> face_detail.Emotions]

\* MapResponse with a confidence threshold on the faces it keeps
MapResponseThreshold(response) ==
    IF "FaceDetails" \notin DOMAIN response
    THEN [exc |-> KeyErrorText("FaceDetails"), value |-> <<>>]
    ELSE LET details == response.FaceDetails
             bad == {i \in 1..Len(details) : MissingKey(details[i]) /= None}
         IN IF bad /= {}
            THEN LET first == CHOOSE i \in bad : \A j \in bad : i <= j
                 IN [exc |-> KeyErrorText(MissingKey(details[first])), value |-> <<>>]
            ELSE LET kept == SelectSeq(details, LAMBDA fd : fd.Confidence >= 900)
                 IN [exc |-> None,
                     value |-> [i \in 1..Len(kept) |-> MapFace(kept[i])]]

\* the list comprehension over response['FaceDetails']: the mapped list, or the
\* KeyError of the first lookup that fails (iteration is in list order)
MapResponse(response) ==
    IF "FaceDetails" \notin DOMAIN response
    THEN [exc |-> KeyErrorText("FaceDetails"), value |-> <<>>]
    ELSE LET details == response.FaceDetails
             bad == {i \in 1..Len(details) : MissingKey(details[i]) /= None}
         IN IF bad /= {}
            THEN LET first == CHOOSE i \in bad : \A j \in bad : i <= j
                 IN [exc |-> KeyErrorText(MissingKey(details[first])), value |-> <<>>]
            ELSE [exc |-> None,
                  value |-> [i \in 1..Len(details) |-> MapFace(details[i])]]

\* the body of the try block: the remote call, then the mapping
TryBlock(outcome) ==
    IF outcome.kind = "raise"
    THEN [exc |-> outcome.error, value |-> <<>>]
    ELSE MapResponse(outcome.body)

\* analyze_emotions whose except clause catches only the client's errors: a
\* KeyError of the mapping leaves the method
AnalyzeEmotionsNarrowExcept(image_bytes, outcome) ==
    LET body == TryBlock(outcome)
    IN IF body.exc = None
       THEN [ret |-> body.value,
             exc |-> None,
             log |-> <<LogEntry("INFO", "Successfully analyzed emotions.")>>,
             requests |-> <<DetectFacesRequest(image_bytes)>>]
       ELSE IF outcome.kind = "raise"
       THEN [ret |-> <<>>,
             exc |-> None,
             log |-> <<LogEntry("ERROR", "Error analyzing emotions: " \o body.exc)>>,
             requests |-> <<DetectFacesRequest(image_bytes)>>]
       ELSE [ret |-> <<>>, exc |-> body.exc, log |-> <<>>,
             requests |-> <<DetectFacesRequest(image_bytes)>>]

\* analyze_emotions whose except clause returns a placeholder face
AnalyzeEmotionsPlaceholder(image_bytes, outcome) ==
    LET body == TryBlock(outcome)
    IN IF body.exc = None
       THEN [ret |-> body.value,
             exc |-> None,
             log |-> <<LogEntry("INFO", "Successfully analyzed emotions.")>>,
             requests |-> <<DetectFacesRequest(image_bytes)>>]
       ELSE [ret |-> <<[Confidence |-> 0, Emotions |-> <<>>]>>,
             exc |-> None,
             log |-> <<LogEntry("ERROR", "Error analyzing emotions: " \o body.exc)>>,
             requests |-> <<DetectFacesRequest(image_bytes)>>]

\* analyze_emotions that repeats the remote call once after a failure
AnalyzeEmotionsRetry(image_bytes, outcome) ==
    LET body == TryBlock(outcome)
    IN IF body.exc = None
       THEN [ret |-> body.value,
             exc |-> None,
             log |-> <<LogEntry("INFO", "Successfully analyzed emotions.")>>,
             requests |-> <<DetectFacesRequest(image_bytes)>>]
       ELSE [ret |-> <<>>,
             exc |-> None,
             log |-> <<LogEntry("ERROR", "Error analyzing emotions: " \o body.exc)>>,
             requests |-> <<DetectFacesRequest(image_bytes),
                            DetectFacesRequest(image_bytes)>>]

\* analyze_emotions that collects into a list kept on the handler, so a call
\* returns the earlier call's faces followed by its own
AnalyzeEmotionsAccumulating(image_bytes, outcome) ==
    LET body == TryBlock(outcome)
        kept == IF history = <<>> THEN <<>> ELSE history[Len(history)].emotions
    IN IF body.exc = None
       THEN [ret |-> kept \o body.value,
             exc |-> None,
             log |-> <<LogEntry("INFO", "Successfully analyzed emotions.")>>,
             requests |-> <<DetectFacesRequest(image_bytes)>>]
       ELSE [ret |-> <<>>,
             exc |-> None,
             log |-> <<LogEntry("ERROR", "Error analyzing emotions: " \o body.exc)>>,
             requests |-> <<DetectFacesRequest(image_bytes)>>]

\* RekognitionHandler.analyze_emotions, given what detect_faces does:
\*   ret      the returned list
\*   exc      the exception that leaves the method (None: it returns)
\*   log      the entries it logs, in order
\*   requests the remote requests it issues, in order
AnalyzeEmotions(image_bytes, outcome) ==
    LET body == TryBlock(outcome)
    IN IF body.exc = None
       THEN [ret |-> body.value,
             exc |-> None,
             log |-> <<LogEntry("INFO", "Successfully analyzed emotions.")>>,
             requests |-> <<DetectFacesRequest(image_bytes)>>]
       ELSE [ret |-> <<>>,
             exc |-> None,
             log |-> <<LogEntry("ERROR", "Error analyzing emotions: " \o body.exc)>>,
             requests |-> <<DetectFacesRequest(image_bytes)>>]

\* ----------------------------------------------- StreamlitEmotionsApp
\* the inner loop: one st.write per emotion, until a key lookup fails
RECURSIVE RenderEmotionLines(_)
RenderEmotionLines(emotions) ==
    IF emotions = <<>> THEN [out |-> <<>>, exc |-> None]
    ELSE LET emotion == Head(emotions)
         IN IF "Type" \notin DOMAIN emotion
            THEN [out |-> <<>>, exc |-> KeyErrorText("Type")]
            ELSE IF "Confidence" \notin DOMAIN emotion
            THEN [out |-> <<>>, exc |-> KeyErrorText("Confidence")]
            ELSE LET rest == RenderEmotionLines(Tail(emotions))
                 IN [out |-> <<"  - " \o emotion.Type \o ": "
                                   \o FormatFloat(emotion.Confidence)>> \o rest.out,
                     exc |-> rest.exc]

\* RenderFace numbering the faces from 0
RenderFaceZeroBased(idx, face) ==
    LET header == <<"Face " \o ToString(idx) \o ":">>
    IN IF "Confidence" \notin DOMAIN face
       THEN [out |-> header, exc |-> KeyErrorText("Confidence")]
       ELSE LET conf == <<"Confidence: " \o FormatFloat(face.Confidence), "Emotions:">>
            IN IF "Emotions" \notin DOMAIN face
               THEN [out |-> header \o <<conf[1], conf[2]>>,
                     exc |-> KeyErrorText("Emotions")]
               ELSE LET lines == RenderEmotionLines(face.Emotions)
                    IN [out |-> header \o conf \o lines.out, exc |-> lines.exc]

\* the body of the outer loop for the face at 0-based position idx
RenderFace(idx, face) ==
    LET header == <<"Face " \o ToString(idx + 1) \o ":">>
    IN IF "Confidence" \notin DOMAIN face
       THEN [out |-> header, exc |-> KeyErrorText("Confidence")]
       ELSE LET conf == <<"Confidence: " \o FormatFloat(face.Confidence), "Emotions:">>
            IN IF "Emotions" \notin DOMAIN face
               THEN [out |-> header \o <<conf[1], conf[2]>>,
                     exc |-> KeyErrorText("Emotions")]
               ELSE LET lines == RenderEmotionLines(face.Emotions)
                    IN [out |-> header \o conf \o lines.out, exc |-> lines.exc]

\* for idx, face in enumerate(emotions), starting at position idx
RECURSIVE RenderFaces(_, _)
RenderFaces(idx, faces) ==
    IF faces = <<>> THEN [out |-> <<>>, exc |-> None]
    ELSE LET this == RenderFace(idx, Head(faces))
         IN IF this.exc /= None THEN this
            ELSE LET rest == RenderFaces(idx + 1, Tail(faces))
                 IN [out |-> this.out \o rest.out, exc |-> rest.exc]

\* RenderResults testing "emotions is not None": an empty list takes the loop
RenderResultsNotNone(emotions) ==
    LET r == RenderFaces(0, emotions)
    IN [out |-> r.out,
        exc |-> r.exc,
        log |-> IF r.exc = None
                THEN <<LogEntry("INFO", "Displayed emotions for uploaded image.")>>
                ELSE <<>>]

\* the if/else on the returned list: what is written, what is logged, and the
\* exception that escapes (None: none)
RenderResults(emotions) ==
    IF emotions /= <<>>
    THEN LET r == RenderFaces(0, emotions)
         IN [out |-> r.out,
             exc |-> r.exc,
             log |-> IF r.exc = None
                     THEN <<LogEntry("INFO", "Displayed emotions for uploaded image.")>>
                     ELSE <<>>]
    ELSE [out |-> <<"No faces detected.">>,
          exc |-> None,
          log |-> <<LogEntry("WARNING", "No faces detected in uploaded image.")>>]

\* upload_and_analyze_image that tells the user when the handler logged an error
UploadAndAnalyzeImageShowsError(uploaded_file, outcome) ==
    LET opening == <<"title", "file_uploader">>
    IN IF uploaded_file = None
       THEN [uploaded |-> None, outcome |-> None, returned |-> FALSE, emotions |-> <<>>,
             rendered |-> <<>>, requests |-> <<>>, log |-> <<>>,
             trace |-> opening, exc |-> None]
       ELSE LET a == AnalyzeEmotions(uploaded_file, outcome)
                r == IF \E i \in 1..Len(a.log) : a.log[i].level = "ERROR"
                     THEN [out |-> <<"Analysis failed.">>, exc |-> None, log |-> <<>>]
                     ELSE RenderResults(a.ret)
            IN [uploaded |-> uploaded_file, outcome |-> outcome,
                returned |-> TRUE, emotions |-> a.ret, rendered |-> r.out,
                requests |-> a.requests, log |-> a.log \o r.log,
                trace |-> opening \o <<"read">>
                             \o [i \in 1..Len(a.requests) |-> "detect_faces"]
                             \o [i \in 1..Len(r.out) |-> "write"],
                exc |-> r.exc]

\* StreamlitEmotionsApp.upload_and_analyze_image as one execution:
\*   uploaded  what st.file_uploader returned (None: nothing uploaded)
\*   outcome   what detect_faces did (unused when nothing was uploaded)
\*   returned  whether analyze_emotions returned (FALSE: it raised, or was not called)
\*   emotions  the list analyze_emotions returned
\*   rendered  the st.write outputs, in order
\*   trace     the externally visible steps, in order
\*   exc       the exception that escapes the method (None: none)
UploadAndAnalyzeImage(uploaded_file, outcome) ==
    LET opening == <<"title", "file_uploader">>
    IN IF uploaded_file = None
       THEN [uploaded |-> None, outcome |-> None, returned |-> FALSE, emotions |-> <<>>,
             rendered |-> <<>>, requests |-> <<>>, log |-> <<>>,
             trace |-> opening, exc |-> None]
       ELSE LET image_bytes == uploaded_file
                a == AnalyzeEmotions(image_bytes, outcome)
                calls == [i \in 1..Len(a.requests) |-> "detect_faces"]
            IN IF a.exc /= None
               THEN [uploaded |-> uploaded_file, outcome |-> outcome,
                     returned |-> FALSE, emotions |-> <<>>, rendered |-> <<>>,
                     requests |-> a.requests, log |-> a.log,
                     trace |-> opening \o <<"read">> \o calls, exc |-> a.exc]
               ELSE LET r == RenderResults(a.ret)
                    IN [uploaded |-> uploaded_file, outcome |-> outcome,
                        returned |-> TRUE, emotions |-> a.ret, rendered |-> r.out,
                        requests |-> a.requests, log |-> a.log \o r.log,
                        trace |-> opening \o <<"read">> \o calls
                                     \o [i \in 1..Len(r.out) |-> "write"],
                        exc |-> r.exc]

\* ------------------------------------------------------------ actions
Init ==
    /\ pc = "start"
    /\ config \in Configs
    /\ handler = None
    /\ log = <<>>
    /\ history = <<>>

\* main(): StreamlitEmotionsApp() -> RekognitionHandler() -> boto3.client(...)
\* returns; the handler logs its initialisation
Construct ==
    /\ pc = "start"
    /\ ~ClientRaises(config)
    /\ handler' = NewHandler
    /\ log' = Append(log, LogEntry("INFO", "Initialized Rekognition client."))
    /\ pc' = "ready"
    /\ UNCHANGED <<config, history>>

\* main(): boto3.client(...) raises; neither __init__ nor main catches it
ConstructRaises ==
    /\ pc = "start"
    /\ ClientRaises(config)
    /\ pc' = "startup_error"
    /\ UNCHANGED <<config, handler, log, history>>

\* app.run() with nothing in the upload control
RunWithoutUpload ==
    /\ pc = "ready"
    /\ Len(history) < MaxRuns
    /\ LET run == UploadAndAnalyzeImage(None, None)
       IN /\ history' = Append(history, run)
          /\ log' = log \o run.log
          /\ pc' = IF run.exc = None THEN "ready" ELSE "run_error"
    /\ UNCHANGED <<config, handler>>

\* app.run() with an uploaded blob; the environment decides what detect_faces does.
\* An exception that escapes run() escapes main(): the instance runs no more.
RunWithUpload ==
    /\ pc = "ready"
    /\ Len(history) < MaxRuns
    /\ \E blob \in ImageBlobs, outcome \in RemoteOutcomes(config) :
          LET run == UploadAndAnalyzeImage(blob, outcome)
          IN /\ history' = Append(history, run)
             /\ log' = log \o run.log
             /\ pc' = IF run.exc = None THEN "ready" ELSE "run_error"
    /\ UNCHANGED <<config, handler>>

Next ==
    \/ Construct
    \/ ConstructRaises
    \/ RunWithoutUpload
    \/ RunWithUpload

Spec == Init /\ [][Next]_vars

TypeOK ==
    /\ pc \in {"start", "ready", "startup_error", "run_error"}
    /\ pc \in {"start", "startup_error"} \/ handler = NewHandler
    /\ config \in Configs
    /\ Len(history) <= MaxRuns
\* ------------------------------------------------------------- properties
\* the executions in which a blob was uploaded
Uploads == {i \in 1..Len(history) : history[i].uploaded /= None}

\* a response the mapping can read: it has FaceDetails, and every face record
\* carries Confidence and Emotions
Mappable(response) ==
    /\ "FaceDetails" \in DOMAIN response
    /\ \A k \in 1..Len(response.FaceDetails) :
          {"Confidence", "Emotions"} \subseteq DOMAIN response.FaceDetails[k]

\* detect_faces raised, or mapping its response raises
RaisesInside(outcome) ==
    outcome.kind = "raise" \/ ~Mappable(outcome.body)

\* the remote call answered, and the answer has n readable face records
Succeeded(outcome) ==
    outcome.kind = "response" /\ Mappable(outcome.body)

CountLevel(entries, level) ==
    Cardinality({k \in 1..Len(entries) : entries[k].level = level})

\* a ResultSet as the data model defines it
WellFormedResultSet(emotions) ==
    \A k \in 1..Len(emotions) :
        /\ {"Confidence", "Emotions"} \subseteq DOMAIN emotions[k]
        /\ \A e \in 1..Len(emotions[k].Emotions) :
              {"Type", "Confidence"} \subseteq DOMAIN emotions[k].Emotions[e]

\* C1: whenever detect_faces raises or mapping its response raises, the call
\* returns the empty list, no exception leaves it, exactly one entry is logged at
\* error severity and no "Successfully analyzed emotions." entry is logged.
C1_FailureIsSwallowed ==
    \A i \in Uploads :
        LET h == history[i]
        IN RaisesInside(h.outcome) =>
              /\ h.returned
              /\ h.exc = None
              /\ h.emotions = <<>>
              /\ CountLevel(h.log, "ERROR") = 1
              /\ \A k \in 1..Len(h.log) :
                    h.log[k].msg /= "Successfully analyzed emotions."

\* one execution failed in detect_faces and one failed in the mapping
C1_Witness ==
    /\ \E i \in Uploads : history[i].outcome.kind = "raise" /\ history[i].returned
    /\ \E i \in Uploads :
          /\ history[i].outcome.kind = "response"
          /\ ~Mappable(history[i].outcome.body)
          /\ history[i].returned
          /\ history[i].emotions = <<>>

\* C2: a response with N readable face records yields exactly N entries, entry k
\* carrying record k's Confidence and Emotions unchanged, in the same order.
C2_FacesCopiedVerbatim ==
    \A i \in Uploads :
        LET h == history[i]
        IN Succeeded(h.outcome) =>
              LET details == h.outcome.body.FaceDetails
              IN /\ h.returned
                 /\ Len(h.emotions) = Len(details)
                 /\ \A k \in 1..Len(details) :
                       /\ h.emotions[k].Confidence = details[k].Confidence
                       /\ h.emotions[k].Emotions = details[k].Emotions

\* a two-face response, lower confidence first, was mapped
C2_Witness ==
    \E i \in Uploads :
        /\ Succeeded(history[i].outcome)
        /\ history[i].outcome.body.FaceDetails = <<Face2, Face1>>
        /\ Len(history[i].emotions) = 2
        /\ history[i].emotions[2].Emotions = <<HAPPY, CALM>>

\* C3: the returned list is empty exactly when the call failed (in detect_faces
\* or in the mapping) or the response held zero face records.
C3_EmptyIffFailedOrNoFaces ==
    \A i \in Uploads :
        LET h == history[i]
        IN /\ h.returned
           /\ (h.emotions = <<>>) <=>
                 (RaisesInside(h.outcome) \/ h.outcome.body.FaceDetails = <<>>)

\* a zero-face response gave an empty list and a response with faces a non-empty one
C3_Witness ==
    /\ \E i \in Uploads :
          /\ Succeeded(history[i].outcome)
          /\ history[i].outcome.body.FaceDetails = <<>>
          /\ history[i].emotions = <<>>
    /\ \E i \in Uploads :
          /\ Succeeded(history[i].outcome)
          /\ Len(history[i].outcome.body.FaceDetails) >= 1
          /\ history[i].emotions /= <<>>

\* C4: an execution that obtains an empty list writes exactly the line
\* "No faces detected." and nothing else.
C4_EmptyRendersNoFaces ==
    \A i \in Uploads :
        LET h == history[i]
        IN (h.returned /\ h.emotions = <<>>) =>
              /\ h.rendered = <<"No faces detected.">>
              /\ h.exc = None

\* an empty list from a zero-face response and one from a failed mapping were rendered
C4_Witness ==
    /\ \E i \in Uploads :
          /\ Succeeded(history[i].outcome)
          /\ history[i].emotions = <<>>
          /\ history[i].rendered = <<"No faces detected.">>
    /\ \E i \in Uploads :
          /\ history[i].outcome.kind = "response"
          /\ ~Mappable(history[i].outcome.body)
          /\ history[i].rendered = <<"No faces detected.">>

\* C5: for every remote outcome the caller receives a well-formed ResultSet
\* (every entry has Confidence and Emotions, every emotion Type and Confidence),
\* so rendering it raises nothing.
C5_AlwaysWellFormed ==
    \A i \in Uploads :
        /\ history[i].returned
        /\ WellFormedResultSet(history[i].emotions)
        /\ history[i].exc = None

\* C6: an execution whose call failed and one whose call found zero faces return
\* the same list and render the same output.
C6_FailureLooksLikeNoFaces ==
    \A i \in Uploads : \A j \in Uploads :
        LET f == history[i]
            z == history[j]
        IN (/\ RaisesInside(f.outcome)
            /\ Succeeded(z.outcome)
            /\ z.outcome.body.FaceDetails = <<>>) =>
              /\ f.returned /\ z.returned
              /\ f.emotions = z.emotions
              /\ f.rendered = z.rendered
              /\ f.exc = z.exc

\* a failed call and a zero-face call on the same instance
C6_Witness ==
    \E i \in Uploads : \E j \in Uploads :
        /\ history[i].outcome.kind = "raise"
        /\ history[i].outcome.error = "EndpointConnectionError"
        /\ Succeeded(history[j].outcome)
        /\ history[j].outcome.body.FaceDetails = <<>>
        /\ history[i].rendered = history[j].rendered

\* C7: an absent or invalid credential/region configuration never shows as an
\* error at startup; it shows only as a failed remote call that analyze_emotions
\* turns into an empty list.
C7_NoStartupError ==
    /\ pc /= "startup_error"
    /\ config /= "ok" =>
          \A i \in Uploads : history[i].returned /\ history[i].emotions = <<>>

\* where face k's lines start in the rendering of a well-formed list
FaceOffset(emotions, k) ==
    LET off[n \in 1..(Len(emotions) + 1)] ==
            IF n = 1 THEN 0 ELSE off[n - 1] + 3 + Len(emotions[n - 1].Emotions)
    IN off[k]

\* the list of the two-face example and its rendering
ExampleResultSet ==
    <<[Confidence |-> 991, Emotions |-> <<HAPPY, CALM>>],
      [Confidence |-> 873, Emotions |-> <<SAD>>]>>

ExampleRendering ==
    <<"Face 1:", "Confidence: 99.1", "Emotions:", "  - HAPPY: 98.0", "  - CALM: 2.0",
      "Face 2:", "Confidence: 87.3", "Emotions:", "  - SAD: 75.0">>

\* C8: a non-empty well-formed list is rendered face by face in list order, face k
\* under the 1-based heading "Face k:", followed by its confidence and its emotions
\* in the order supplied; the no-results line is not written; the two-face example
\* renders as given.
C8_RenderedInOrder ==
    \A i \in Uploads :
        LET h == history[i]
            es == h.emotions
        IN (h.returned /\ es /= <<>> /\ WellFormedResultSet(es)) =>
              /\ h.exc = None
              /\ Len(h.rendered) = FaceOffset(es, Len(es) + 1)
              /\ \A k \in 1..Len(es) :
                    LET at == FaceOffset(es, k)
                    IN /\ h.rendered[at + 1] = "Face " \o ToString(k) \o ":"
                       /\ h.rendered[at + 2] =
                             "Confidence: " \o FormatFloat(es[k].Confidence)
                       /\ h.rendered[at + 3] = "Emotions:"
                       /\ \A e \in 1..Len(es[k].Emotions) :
                             h.rendered[at + 3 + e] =
                                "  - " \o es[k].Emotions[e].Type \o ": "
                                    \o FormatFloat(es[k].Emotions[e].Confidence)
              /\ \A n \in 1..Len(h.rendered) : h.rendered[n] /= "No faces detected."
              /\ (es = ExampleResultSet => h.rendered = ExampleRendering)

\* the two-face example was rendered
C8_Witness ==
    \E i \in Uploads :
        /\ history[i].emotions = ExampleResultSet
        /\ history[i].rendered = ExampleRendering

\* the positions of a step in a trace
Positions(trace, step) == {n \in 1..Len(trace) : trace[n] = step}

\* C9: an execution with an uploaded blob issues exactly one detect_faces request,
\* for the blob it read and with Attributes ['ALL'], after the read and before
\* every write of results; an execution without a blob issues no request and
\* writes nothing.
C9_OneCallPerUpload ==
    \A i \in 1..Len(history) :
        LET h == history[i]
            calls == Positions(h.trace, "detect_faces")
        IN IF h.uploaded /= None
           THEN /\ Len(h.requests) = 1
                /\ h.requests[1].Attributes = <<"ALL">>
                /\ h.requests[1].Image.Bytes = h.uploaded
                /\ Cardinality(calls) = 1
                /\ Cardinality(Positions(h.trace, "read")) = 1
                /\ \A c \in calls :
                      /\ \A r \in Positions(h.trace, "read") : r < c
                      /\ \A w \in Positions(h.trace, "write") : c < w
                /\ Cardinality(Positions(h.trace, "write")) = Len(h.rendered)
           ELSE /\ h.requests = <<>>
                /\ calls = {}
                /\ h.rendered = <<>>

\* one execution without a blob, and one with a blob whose call failed
C9_Witness ==
    /\ \E i \in 1..Len(history) : history[i].uploaded = None
    /\ \E i \in Uploads :
          /\ history[i].outcome.kind = "raise"
          /\ Len(history[i].requests) = 1
          /\ history[i].rendered /= <<>>

====
